---- MODULE Spec2Model ----
(***************************************************************************)
(* Model of the gluten assistant: RAGSystem (src/rag_v3.py) and the        *)
(* Streamlit front end GlutenAssistantApp (src/UI/streamlitui.py).         *)
(*                                                                         *)
(* A Python str is a sequence of one-character strings.  A table cell is a *)
(* record [k, s]: k = "str" (text s), k = "nan" (missing value, a float)   *)
(* or k = "num" (a number whose str() is s).  pandas is modelled with the  *)
(* object-dtype semantics of pandas 1.x / 2.x.                             *)
(***************************************************************************)
EXTENDS Integers, Sequences, FiniteSets, TLC

VARIABLES
    phase,          \* "new" | "prepared" | "ready" | "failed": RAGSystem() not yet
                    \* called, past _prepare_data_files, built, raised
    ctor,           \* the constructor call in progress or that raised, NoCall otherwise
    app,            \* TRUE when the instance is the one held by GlutenAssistantApp
    pc,             \* "idle" | "retrieved" | "repeated" | "done": where the caller
                    \* of the instance is
    data_sources,   \* self.data_sources: the three frames
    gluten_ingredients, \* self.gluten_ingredients: the set of gluten words
    earlier,        \* what the first of several calls with the same query gave
    query,          \* argument of the last retrieve_relevant_info call
    outcome,        \* "none" | "returned" | "KeyError" | "AttributeError" | "re.error"
    results,        \* list returned by the last retrieve_relevant_info call
    response,       \* lines returned by the last generate_response call, <<>> if none
    ui              \* what the last button press of the front end did

vars == <<phase, ctor, app, pc, data_sources, gluten_ingredients, earlier,
          query, outcome, results, response, ui>>

----------------------------------------------------------------------------
(* Bounds of the model *)

MaxRecipes == 2      \* rows of the recipe file RAGSystem loads
MaxProducts == 2     \* rows of the product file RAGSystem loads
MaxDataRows == 1     \* rows of each file under ./Data the front end reads

----------------------------------------------------------------------------
(* Text *)

S_empty == <<>>
S_space == <<" ">>
S_wheat == <<"w","h","e","a","t">>
S_barley == <<"b","a","r","l","e","y">>
S_rye == <<"r","y","e">>
S_couscous == <<"c","o","u","s","c","o","u","s">>
S_semolina == <<"s","e","m","o","l","i","n","a">>
S_bulgur == <<"b","u","l","g","u","r">>
S_freekeh_ar == <<"U+0641","U+0631","U+064A","U+0643","U+0629">>
S_qamh_ar == <<"U+0642","U+0645","U+062D">>
S_shair_ar == <<"U+0634","U+0639","U+064A","U+0631">>
S_bread == <<"b","r","e","a","d">>
S_flour == <<"f","l","o","u","r">>
S_lamb == <<"l","a","m","b">>
S_tagine == <<"t","a","g","i","n","e">>
S_nan == <<"n","a","n">>
S_NA == <<"N","A">>
S_7 == <<"7">>
S_Tagine == <<"T","a","g","i","n","e">>
S_Couscous == <<"C","o","u","s","c","o","u","s">>
S_Pastilla == <<"P","a","s","t","i","l","l","a">>
S_Zaalouk == <<"Z","a","a","l","o","u","k">>
S_FlourBread == <<"F","l","o","u","r"," ","B","r","e","a","d">>
S_RiceCookies == <<"R","i","c","e"," ","C","o","o","k","i","e","s">>
S_wheat_semolina == S_wheat \o S_space \o S_semolina
S_rice_flour_sugar == <<"r","i","c","e">> \o S_space \o S_flour \o S_space \o <<"s","u","g","a","r">>
S_mixed == <<"W","h","e","a","t">> \o S_space \o S_wheat \o <<"-","f","r","e","e">>
             \o S_space \o S_space \o S_rye \o <<"\t">> \o S_rye

UpperCase == <<"A","B","C","D","E","F","G","H","I","J","K","L","M",
               "N","O","P","Q","R","S","T","U","V","W","X","Y","Z">>
LowerCase == <<"a","b","c","d","e","f","g","h","i","j","k","l","m",
               "n","o","p","q","r","s","t","u","v","w","x","y","z">>

\* the lower-case letter of each upper-case letter
LowerOf == [c \in {UpperCase[i] : i \in DOMAIN UpperCase} |->
              LowerCase[CHOOSE i \in DOMAIN UpperCase : UpperCase[i] = c]]

\* str.lower() on one character
LowerChar(c) == IF c \in DOMAIN LowerOf THEN LowerOf[c] ELSE c

\* str.lower()
Lower(s) == [i \in DOMAIN s |-> LowerChar(s[i])]

IsSpace(c) == c \in {" ", "\t", "\n"}

RECURSIVE SplitFrom(_, _, _)
SplitFrom(s, i, cur) ==
    IF i > Len(s)
    THEN IF cur = <<>> THEN <<>> ELSE <<cur>>
    ELSE IF IsSpace(s[i])
         THEN IF cur = <<>> THEN SplitFrom(s, i + 1, <<>>)
                            ELSE <<cur>> \o SplitFrom(s, i + 1, <<>>)
         ELSE SplitFrom(s, i + 1, Append(cur, s[i]))

\* str.split() without arguments: the maximal runs of non-whitespace
PySplit(s) == SplitFrom(s, 1, <<>>)

RECURSIVE LStrip(_)
LStrip(s) == IF s # <<>> /\ IsSpace(Head(s)) THEN LStrip(Tail(s)) ELSE s

RECURSIVE RStrip(_)
RStrip(s) ==
    IF s # <<>> /\ IsSpace(s[Len(s)]) THEN RStrip(SubSeq(s, 1, Len(s) - 1)) ELSE s

\* str.strip()
PyStrip(s) == RStrip(LStrip(s))

\* needle in hay (Python's substring test on str)
PyIn(needle, hay) ==
    \E k \in 0..(Len(hay) - Len(needle)) :
        \A j \in 1..Len(needle) : hay[k + j] = needle[j]

----------------------------------------------------------------------------
(* re.compile(pat, re.IGNORECASE).search(text), for patterns made of      *)
(* literal characters, ".", "*", "(" and "[" (no closing bracket occurs   *)
(* in the alphabet of the modelled queries).                               *)

\* re.compile raises re.error: an unterminated group or character set, or a
\* "*" with nothing to repeat / a repeated repeat
ReCompiles(pat) ==
    /\ \A i \in DOMAIN pat : pat[i] \notin {"(", "["}
    /\ \A i \in DOMAIN pat : pat[i] = "*" => (i > 1 /\ pat[i - 1] # "*")

AtomMatches(a, c) ==
    IF a = "." THEN c # "\n" ELSE LowerChar(a) = LowerChar(c)

RECURSIVE MatchHere(_, _, _, _)
MatchHere(pat, i, text, j) ==
    IF i > Len(pat) THEN TRUE
    ELSE IF i < Len(pat) /\ pat[i + 1] = "*"
         THEN \/ MatchHere(pat, i + 2, text, j)
              \/ /\ j <= Len(text)
                 /\ AtomMatches(pat[i], text[j])
                 /\ MatchHere(pat, i, text, j + 1)
         ELSE /\ j <= Len(text)
              /\ AtomMatches(pat[i], text[j])
              /\ MatchHere(pat, i + 1, text, j + 1)

ReSearch(pat, text) == \E j \in 1..(Len(text) + 1) : MatchHere(pat, 1, text, j)

----------------------------------------------------------------------------
(* Cells and CSV files *)

NaN == [k |-> "nan", s |-> <<>>]
Str(s) == [k |-> "str", s |-> s]
Num(s) == [k |-> "num", s |-> s]

\* str(value)
PyStr(v) ==
    IF v.k = "nan" THEN S_nan ELSE v.s

Digits == {"0","1","2","3","4","5","6","7","8","9"}
IsNumeric(cell) == cell # <<>> /\ \A i \in DOMAIN cell : cell[i] \in Digits

\* pandas' default na_values (those the modelled files can hold)
NaValues == {S_empty, S_nan, S_NA}

\* dtype pd.read_csv infers for a column from its raw cells
ColDtype(cells) ==
    IF cells # <<>> /\ \A i \in DOMAIN cells : cells[i] \in NaValues \/ IsNumeric(cells[i])
    THEN "number" ELSE "object"

ParseCell(cell, dtype) ==
    IF cell \in NaValues THEN NaN
    ELSE IF dtype = "number" THEN Num(cell) ELSE Str(cell)

\* pd.DataFrame(): no columns, no rows
EmptyFrame == [columns |-> FALSE, name_dtype |-> "object",
               ingredients_dtype |-> "object", rows |-> <<>>]

\* pd.read_csv on a readable file with the columns name, ingredients, gluten_status
ReadCsv(file) ==
    LET names == [i \in DOMAIN file.rows |-> file.rows[i].name]
        ingrs == [i \in DOMAIN file.rows |-> file.rows[i].ingredients]
        nd == ColDtype(names)
        id == ColDtype(ingrs)
    IN [columns |-> TRUE, name_dtype |-> nd, ingredients_dtype |-> id,
        rows |-> [i \in DOMAIN file.rows |->
                    [name |-> ParseCell(names[i], nd),
                     ingredients |-> ParseCell(ingrs[i], id),
                     gluten_status |-> file.rows[i].gluten_status]]]

Raw(n, i, g) == [name |-> n, ingredients |-> i, gluten_status |-> g]

\* rows a recipe file may hold: the seed rows of _prepare_data_files and
\* rows with mixed case, repeated tokens, a missing cell, a number
RecipePool ==
    { Raw(S_Tagine, S_lamb, FALSE),
      Raw(S_Couscous, S_wheat_semolina, TRUE),
      Raw(S_FlourBread, S_mixed, FALSE),
      Raw(S_Zaalouk, S_empty, FALSE),
      Raw(S_Pastilla, S_7, TRUE),
      Raw(S_empty, S_barley, TRUE) }

ProductPool ==
    { Raw(S_RiceCookies, S_rice_flour_sugar, FALSE),
      Raw(S_Couscous, S_couscous, TRUE) }

SeqsUpTo(S, n) == UNION { [1..k -> S] : k \in 0..n }

Unreadable == [ok |-> FALSE, rows |-> <<>>]
Readable(rows) == [ok |-> TRUE, rows |-> rows]

RecipeFiles == {Unreadable} \cup { Readable(r) : r \in SeqsUpTo(RecipePool, MaxRecipes) }
ProductFiles == {Unreadable} \cup { Readable(r) : r \in SeqsUpTo(ProductPool, MaxProducts) }

\* the files under ./Data
DataRecipeFiles == {Unreadable} \cup { Readable(r) : r \in SeqsUpTo(RecipePool, MaxDataRows) }
DataProductFiles == {Unreadable} \cup { Readable(r) : r \in SeqsUpTo(ProductPool, MaxDataRows) }

\* nutritional_ref.csv has the columns ingredient, gluten_content, alternative
NutritionalSeed ==
    << [ingredient |-> S_wheat, gluten_content |-> "high", alternative |-> "rice"],
       [ingredient |-> S_couscous, gluten_content |-> "high", alternative |-> "quinoa"] >>
NutritionalFiles == {Unreadable, Readable(NutritionalSeed)}

\* pd.read_csv of the nutritional file
ReadNutritional(file) == [columns |-> TRUE, rows |-> file.rows]
EmptyNutritional == [columns |-> FALSE, rows |-> <<>>]

\* query strings given to retrieve_relevant_info
Queries ==
    { S_empty, S_space, S_couscous, S_tagine, S_wheat, S_nan,
      <<"o","u">>, <<".">>, <<"z","*">>, <<"*">>, <<"(">>, <<"[">> }

\* texts perform_ocr may extract from an image
OcrTexts == { S_empty, S_space, <<" ", "\n">>, S_wheat \o <<"\n">>, S_couscous }

\* the texts a name or ingredients cell of the modelled files can hold
CellTexts ==
    {r.name : r \in RecipePool \cup ProductPool}
    \cup {r.ingredients : r \in RecipePool \cup ProductPool}

\* ReSearch tabulated: for each pattern, the cell texts it is found in
SearchHits == [pat \in Queries \cup OcrTexts |-> {text \in CellTexts : ReSearch(pat, text)}]

----------------------------------------------------------------------------
(* RAGSystem: knowledge bases *)

\* _load_gluten_ingredients
load_gluten_ingredients ==
    { S_wheat, S_barley, S_rye, S_couscous, S_semolina, S_bulgur,
      S_freekeh_ar, S_qamh_ar, S_shair_ar }

\* moroccan_alternatives, a dict iterated in insertion order
moroccan_alternatives ==
    << [item |-> S_couscous, subs |-> <<"quinoa", "rice", "corn couscous">>],
       [item |-> S_bread, subs |-> <<"corn bread", "rice bread">>],
       [item |-> S_flour, subs |-> <<"rice flour", "corn flour">>] >>

RECURSIVE AlternativesFrom(_, _)
AlternativesFrom(k, lowered) ==
    IF k > Len(moroccan_alternatives) THEN <<>>
    ELSE (IF PyIn(moroccan_alternatives[k].item, lowered)
          THEN moroccan_alternatives[k].subs ELSE <<>>)
         \o AlternativesFrom(k + 1, lowered)

\* the keywords looked up in the name as written, not lower-cased
GenerateAlternatives_CaseSensitive(item_name) == AlternativesFrom(1, item_name)

\* _generate_alternatives(item_name), item_name a str
GenerateAlternatives(item_name) == AlternativesFrom(1, Lower(item_name))

----------------------------------------------------------------------------
(* RAGSystem.retrieve_relevant_info *)

\* a membership test that ignores case
IsGlutenSource_IgnoringCase(ing) == Lower(ing) \in gluten_ingredients

\* ing in self.gluten_ingredients
IsGlutenSource(ing) == ing \in gluten_ingredients

\* the declared flag of the row taken for the verdict
ContainsGluten_Declared(item) == item.gluten_status

\* any(ing in self.gluten_ingredients for ing in str(item['ingredients']).split())
ContainsGluten(item) ==
    LET toks == PySplit(PyStr(item.ingredients))
    IN \E i \in DOMAIN toks : IsGlutenSource(toks[i])

\* [ing for ing in str(item['ingredients']).split() if ing in self.gluten_ingredients]
GlutenSources(item) ==
    SelectSeq(PySplit(PyStr(item.ingredients)), IsGlutenSource)

\* GlutenAnalysisResult(...) built for one matched row
AnalyseRow(item) ==
    [item_name |-> item.name,
     contains_gluten |-> ContainsGluten(item),
     gluten_sources |-> GlutenSources(item),
     alternative_suggestions |-> GenerateAlternatives(PyStr(item.name)),
     confidence_score |-> "0.8",
     nutritional_details |-> <<>>]

\* Series.str.contains(query, case=False) on an object column: one of
\* "True", "False" per str cell, "NaN" for every other cell
StrContains(cells, q) ==
    [i \in DOMAIN cells |->
        IF cells[i].k = "str"
        THEN (IF cells[i].s \in SearchHits[q] THEN "True" ELSE "False")
        ELSE "NaN"]

\* left | right on two Series: a NaN on the right counts as False, a NaN on
\* the left makes the result NaN, which the frame selection reads as False
MaskOr(left, right) ==
    [i \in DOMAIN left |-> left[i] = "True" \/ (left[i] = "False" /\ right[i] = "True")]

\* the mask frame[(name contains q) | (ingredients contains q)]
MatchMask(frame, q) ==
    MaskOr(StrContains([i \in DOMAIN frame.rows |-> frame.rows[i].name], q),
           StrContains([i \in DOMAIN frame.rows |-> frame.rows[i].ingredients], q))

RECURSIVE SelectRows(_, _, _)
SelectRows(rows, mask, i) ==
    IF i > Len(rows) THEN <<>>
    ELSE (IF mask[i] THEN <<rows[i]>> ELSE <<>>) \o SelectRows(rows, mask, i + 1)

\* frame[mask]: the rows the mask keeps, in row order
Matches(frame, q) == SelectRows(frame.rows, MatchMask(frame, q), 1)

\* the exception the selection of one frame raises, "none" if it raises none
SelectError(frame, q) ==
    IF ~frame.columns THEN "KeyError"
    ELSE IF frame.name_dtype # "object" THEN "AttributeError"
    ELSE IF ~ReCompiles(q) THEN "re.error"
    ELSE IF frame.ingredients_dtype # "object" THEN "AttributeError"
    ELSE "none"

\* item_name.lower() on a name that is no str raises AttributeError
AnalyseError(matches) ==
    IF \E i \in DOMAIN matches : matches[i].name.k # "str"
    THEN "AttributeError" ELSE "none"

\* the product loop run before the recipe loop
CombineMatches_ProductsFirst(recipe_matches, product_matches) ==
    [i \in DOMAIN product_matches |-> AnalyseRow(product_matches[i])]
    \o [i \in DOMAIN recipe_matches |-> AnalyseRow(recipe_matches[i])]

\* results after the two loops: recipes first, then products
CombineMatches(recipe_matches, product_matches) ==
    [i \in DOMAIN recipe_matches |-> AnalyseRow(recipe_matches[i])]
    \o [i \in DOMAIN product_matches |-> AnalyseRow(product_matches[i])]

\* how retrieve_relevant_info(q) ends on the sources ds
RetrieveOutcome(ds, q) ==
    LET e1 == SelectError(ds.recipes, q)
        e2 == SelectError(ds.products, q)
    IN IF e1 # "none" THEN e1
       ELSE IF e2 # "none" THEN e2
       ELSE IF AnalyseError(Matches(ds.recipes, q)) # "none" THEN "AttributeError"
       ELSE IF AnalyseError(Matches(ds.products, q)) # "none" THEN "AttributeError"
       ELSE "returned"

----------------------------------------------------------------------------
(* RAGSystem.generate_response: the text as its sequence of lines *)

NoInformation == << <<"no-information">> >>

GlutenLabel(result) ==
    IF result.contains_gluten THEN "contains-gluten" ELSE "gluten-free"

\* the heading of the sources written for every result
SourceLines_Always(result) ==
    << <<"sources-heading">> >>
    \o [i \in DOMAIN result.gluten_sources |-> <<"source", result.gluten_sources[i]>>]

SourceLines(result) ==
    IF result.gluten_sources # <<>>
    THEN << <<"sources-heading">> >>
         \o [i \in DOMAIN result.gluten_sources |-> <<"source", result.gluten_sources[i]>>]
    ELSE <<>>

AlternativeLines(result) ==
    IF result.alternative_suggestions # <<>>
    THEN << <<"alternatives-heading">> >>
         \o [i \in DOMAIN result.alternative_suggestions |->
                <<"alternative", result.alternative_suggestions[i]>>]
    ELSE <<>>

\* the lines one pass of the loop appends
ResultLines(result) ==
    << <<"item", result.item_name, GlutenLabel(result)>> >>
    \o SourceLines(result) \o AlternativeLines(result)

RECURSIVE ResponseFrom(_, _)
ResponseFrom(retrieved_info, i) ==
    IF i > Len(retrieved_info) THEN <<>>
    ELSE ResultLines(retrieved_info[i]) \o ResponseFrom(retrieved_info, i + 1)

GenerateResponse(retrieved_info) ==
    IF retrieved_info = <<>> THEN NoInformation
    ELSE << <<"header">> >> \o ResponseFrom(retrieved_info, 1)

----------------------------------------------------------------------------
(* The state machine *)

NoUi == [mode |-> "none", text |-> <<>>, warning |-> FALSE, searched |-> FALSE]

NoSources == [recipes |-> EmptyFrame, products |-> EmptyFrame,
              nutritional |-> EmptyNutritional]

\* no constructor call is in progress: config_path is a parameter of
\* __init__ and is not kept on the instance
NoCall == [config_path |-> "none", found |-> "none", config_file |-> "none",
           steps |-> <<>>, raised |-> "none"]

\* config_path: the default 'moroccan_gluten_config.json', or another path
ConfigPaths == {"default", "custom"}

\* what is at config_path when RAGSystem(config_path) is called: a file
\* json.load reads, no file, or a file open() or json.load raises on
ConfigStates == {"ok", "missing", "unreadable"}

\* no call of retrieve_relevant_info has been repeated
NoEarlier == [query |-> <<>>, outcome |-> "none", results |-> <<>>]

Init ==
    /\ phase = "new"
    /\ ctor = NoCall
    /\ gluten_ingredients = {}
    /\ earlier = NoEarlier
    /\ app = FALSE
    /\ pc = "idle"
    /\ data_sources = NoSources
    /\ query = <<>>
    /\ outcome = "none"
    /\ results = <<>>
    /\ response = <<>>
    /\ ui = NoUi

\* _load_recipe_database / _load_product_catalog: an empty frame on any error
LoadTable(file) == IF file.ok THEN ReadCsv(file) ELSE EmptyFrame

\* _load_nutritional_database
LoadNutritional(file) == IF file.ok THEN ReadNutritional(file) ELSE EmptyNutritional

\* a preparation that leaves the configuration as it found it
PrepareConfig_NeverWritten(config_path, found) == found

\* the last step of _prepare_data_files: the configuration is written when
\* no file is at the default path, and that is the file open() reads when
\* config_path is the default
PrepareConfig(config_path, found) ==
    IF config_path = "default" /\ found = "missing" THEN "ok" ELSE found

\* RAGSystem.__init__, its first statement: self._prepare_data_files()
Prepare ==
    /\ phase = "new"
    /\ \E config_path \in ConfigPaths, found \in ConfigStates :
          ctor' = [config_path |-> config_path, found |-> found,
                   config_file |-> PrepareConfig(config_path, found),
                   steps |-> <<"_prepare_data_files">>, raised |-> "none"]
    /\ phase' = "prepared"
    /\ UNCHANGED <<app, pc, data_sources, gluten_ingredients, earlier,
                   query, outcome, results, response, ui>>

\* the constructor raised in the call named by step
Raise(step) == [ctor EXCEPT !.steps = @ \o <<step>>, !.raised = step]

\* RAGSystem.__init__ after _prepare_data_files: open(config_path) and
\* json.load raise when the configuration cannot be read; the three loaders
\* never raise
Construct ==
    /\ phase = "prepared"
    /\ IF ctor.config_file = "ok"
       THEN /\ \E rf \in RecipeFiles, pf \in ProductFiles, nf \in NutritionalFiles :
                  data_sources' = [recipes |-> LoadTable(rf), products |-> LoadTable(pf),
                                   nutritional |-> LoadNutritional(nf)]
            /\ gluten_ingredients' = load_gluten_ingredients
            /\ phase' = "ready"
            /\ ctor' = NoCall
       ELSE /\ phase' = "failed"
            /\ ctor' = Raise("open")
            /\ UNCHANGED <<data_sources, gluten_ingredients>>
    /\ UNCHANGED <<app, pc, earlier, query, outcome, results, response, ui>>

\* what RAGSystem() did when GlutenAssistantApp.__init__ goes on to read
\* its own files
Loaded == [ctor EXCEPT !.steps = @ \o <<"open", "_load_recipe_database",
                                        "_load_product_catalog",
                                        "_load_nutritional_database">>]

\* GlutenAssistantApp.__init__: RAGSystem() with the default config_path,
\* then data_sources replaced by three pd.read_csv calls that are not guarded
AppConstruct ==
    /\ phase = "prepared"
    /\ ctor.config_path = "default"
    /\ IF ctor.config_file = "ok"
       THEN \E rf \in DataRecipeFiles, pf \in DataProductFiles, nf \in NutritionalFiles :
               IF rf.ok /\ pf.ok /\ nf.ok
               THEN /\ phase' = "ready"
                    /\ ctor' = NoCall
                    /\ app' = TRUE
                    /\ gluten_ingredients' = load_gluten_ingredients
                    /\ data_sources' = [recipes |-> ReadCsv(rf), products |-> ReadCsv(pf),
                                        nutritional |-> ReadNutritional(nf)]
               ELSE /\ phase' = "failed"
                    /\ ctor' = [Loaded EXCEPT !.steps = @ \o <<"read_csv">>,
                                              !.raised = "read_csv"]
                    /\ UNCHANGED <<app, data_sources, gluten_ingredients>>
       ELSE /\ phase' = "failed"
            /\ ctor' = Raise("open")
            /\ UNCHANGED <<app, data_sources, gluten_ingredients>>
    /\ UNCHANGED <<pc, earlier, query, outcome, results, response, ui>>

\* a retrieval that takes the recipes out of the table it searched
TablesAfter_Consuming(ds, text) == [ds EXCEPT !.recipes.rows = <<>>]

\* self.data_sources once retrieve_relevant_info(text) is over: the masks
\* select into new frames, iterrows reads, and nothing is assigned
TablesAfter(ds, text) == ds

\* the effect of a call retrieve_relevant_info(text), followed by
\* generate_response on what it returned when respond is TRUE
SearchFor(text, respond) ==
    LET how == RetrieveOutcome(data_sources, text)
        found == IF how = "returned"
                 THEN CombineMatches(Matches(data_sources.recipes, text),
                                     Matches(data_sources.products, text))
                 ELSE <<>>
    IN /\ query' = text
       /\ outcome' = how
       /\ results' = found
       /\ response' = IF respond /\ how = "returned"
                      THEN GenerateResponse(found) ELSE <<>>
       /\ data_sources' = TablesAfter(data_sources, text)

NoSearch ==
    /\ query' = <<>>
    /\ outcome' = "none"
    /\ results' = <<>>
    /\ response' = <<>>
    /\ data_sources' = data_sources

\* a call retrieve_relevant_info(q), as main() makes it
Retrieve ==
    /\ phase = "ready"
    /\ ~app
    /\ pc = "idle"
    /\ \E q \in Queries : SearchFor(q, FALSE)
    /\ pc' = "retrieved"
    /\ UNCHANGED <<phase, ctor, app, gluten_ingredients, earlier, ui>>

\* one more call retrieve_relevant_info(q) with the query of the call before,
\* on the same instance
RetrieveAgain ==
    /\ phase = "ready"
    /\ ~app
    /\ pc \in {"retrieved", "repeated"}
    /\ earlier' = IF pc = "retrieved"
                  THEN [query |-> query, outcome |-> outcome, results |-> results]
                  ELSE earlier
    /\ SearchFor(query, FALSE)
    /\ pc' = "repeated"
    /\ UNCHANGED <<phase, ctor, app, gluten_ingredients, ui>>

\* a call generate_response(results) on the list the last retrieval returned
Respond ==
    /\ phase = "ready"
    /\ ~app
    /\ pc = "retrieved"
    /\ outcome = "returned"
    /\ response' = GenerateResponse(results)
    /\ pc' = "done"
    /\ UNCHANGED <<phase, ctor, app, data_sources, gluten_ingredients, earlier,
                   query, outcome, results, ui>>

\* text_search_mode with the search button pressed: "if query:"
TextSearch ==
    /\ phase = "ready"
    /\ app
    /\ pc = "idle"
    /\ \E q \in Queries :
          IF q # <<>>
          THEN /\ SearchFor(q, TRUE)
               /\ ui' = [mode |-> "text", text |-> q, warning |-> FALSE, searched |-> TRUE]
          ELSE /\ NoSearch
               /\ ui' = [mode |-> "text", text |-> q, warning |-> FALSE, searched |-> FALSE]
    /\ pc' = "done"
    /\ UNCHANGED <<phase, ctor, app, gluten_ingredients, earlier>>

\* product_scan_mode with the analyse button pressed: "if ocr_text.strip():"
\* and st.warning otherwise
ProductScan ==
    /\ phase = "ready"
    /\ app
    /\ pc = "idle"
    /\ \E ocr_text \in OcrTexts :
          IF PyStrip(ocr_text) # <<>>
          THEN /\ SearchFor(ocr_text, TRUE)
               /\ ui' = [mode |-> "scan", text |-> ocr_text, warning |-> FALSE, searched |-> TRUE]
          ELSE /\ NoSearch
               /\ ui' = [mode |-> "scan", text |-> ocr_text, warning |-> TRUE, searched |-> FALSE]
    /\ pc' = "done"
    /\ UNCHANGED <<phase, ctor, app, gluten_ingredients, earlier>>

\* the caller is through with what the last call gave it: the next pass of
\* the loop over the queries in main(), the next run of the Streamlit script
Finish ==
    /\ phase = "ready"
    /\ pc # "idle"
    /\ pc' = "idle"
    /\ NoSearch
    /\ ui' = NoUi
    /\ earlier' = NoEarlier
    /\ UNCHANGED <<phase, ctor, app, gluten_ingredients>>

Next ==
    \/ Prepare
    \/ Construct
    \/ AppConstruct
    \/ Retrieve
    \/ RetrieveAgain
    \/ Respond
    \/ TextSearch
    \/ ProductScan
    \/ Finish

Spec == Init /\ [][Next]_vars

----------------------------------------------------------------------------
(* Vocabulary of the properties *)

\* retrieve_relevant_info was called, and query, outcome and results are its
Called == phase = "ready" /\ pc # "idle" /\ (app => ui.searched)

Returned == Called /\ outcome = "returned"

\* the k-th smallest member of a finite set of integers
Kth(S, k) == CHOOSE a \in S : Cardinality({b \in S : b < a}) = k - 1

\* positions at which a whitespace-separated token of text starts
TokenStarts(text) ==
    {a \in 1..Len(text) : ~IsSpace(text[a]) /\ (a = 1 \/ IsSpace(text[a - 1]))}

\* the token of text that starts at a: it runs up to the next whitespace
TokenAt(text, a) ==
    LET ends == {b \in a..Len(text) :
                    /\ \A c \in a..b : ~IsSpace(text[c])
                    /\ (b = Len(text) \/ IsSpace(text[b + 1]))}
    IN SubSeq(text, a, CHOOSE b \in ends : TRUE)

\* rows of a frame the retrieval selected for the query
Hits(frame, q) == {i \in DOMAIN frame.rows : MatchMask(frame, q)[i]}

\* the row the k-th result was built from
RowOf(k) ==
    LET hr == Hits(data_sources.recipes, query)
        hp == Hits(data_sources.products, query)
    IN IF k <= Cardinality(hr)
       THEN data_sources.recipes.rows[Kth(hr, k)]
       ELSE data_sources.products.rows[Kth(hp, k - Cardinality(hr))]

\* one result per selected row
OnePerHit ==
    Len(results) = Cardinality(Hits(data_sources.recipes, query))
                   + Cardinality(Hits(data_sources.products, query))

----------------------------------------------------------------------------
(* C1: for every matched row, gluten_sources is exactly the sequence of    *)
(* the whitespace-separated tokens of the row's ingredient text that equal *)
(* a word of the gluten lexicon, in their order and with repetitions; a    *)
(* token that contains a lexicon word or differs from it in case is not a  *)
(* source, and the declared gluten_status is not consulted.                *)
C1_GlutenSourcesAreLexiconTokens ==
    Returned =>
        /\ OnePerHit
        /\ \A k \in DOMAIN results :
              LET text == PyStr(RowOf(k).ingredients)
                  at == {a \in TokenStarts(text) : TokenAt(text, a) \in gluten_ingredients}
              IN /\ Len(results[k].gluten_sources) = Cardinality(at)
                 /\ \A n \in 1..Cardinality(at) :
                       results[k].gluten_sources[n] = TokenAt(text, Kth(at, n))

\* a matched row "Wheat wheat-free  rye<TAB>rye" gave the sources rye, rye
C1_Witness ==
    /\ Returned
    /\ \E k \in DOMAIN results :
          /\ OnePerHit
          /\ RowOf(k).ingredients = Str(S_mixed)
          /\ results[k].gluten_sources = <<S_rye, S_rye>>

(* C2: every result retrieve_relevant_info returns has contains_gluten     *)
(* true exactly when its gluten_sources list is not empty.                 *)
C2_ContainsGlutenIffSources ==
    Returned =>
        \A k \in DOMAIN results :
            results[k].contains_gluten <=> (results[k].gluten_sources # <<>>)

\* a recipe result and a product result, one with gluten and one without,
\* the one without built from a row declared gluten_status = True
C2_Witness ==
    /\ Returned
    /\ OnePerHit
    /\ Hits(data_sources.recipes, query) # {}
    /\ Hits(data_sources.products, query) # {}
    /\ \E i, j \in DOMAIN results :
          /\ results[i].contains_gluten
          /\ ~results[j].contains_gluten
          /\ RowOf(j).gluten_status

(* C4: a retrieval that returns gives one result per selected row, those  *)
(* of the recipe rows first in recipe row order, then those of the product *)
(* rows in product row order; a name selected in both tables gives two     *)
(* results, and no result comes from a row of the nutritional table.       *)
C4_RecipesThenProducts ==
    Returned =>
        LET R == data_sources.recipes
            P == data_sources.products
            hr == Hits(R, query)
            hp == Hits(P, query)
        IN /\ Len(results) = Cardinality(hr) + Cardinality(hp)
           /\ \A k \in 1..Cardinality(hr) :
                 /\ results[k].item_name = R.rows[Kth(hr, k)].name
                 /\ results[k].gluten_sources = GlutenSources(R.rows[Kth(hr, k)])
           /\ \A k \in 1..Cardinality(hp) :
                 /\ results[Cardinality(hr) + k].item_name = P.rows[Kth(hp, k)].name
                 /\ results[Cardinality(hr) + k].gluten_sources
                       = GlutenSources(P.rows[Kth(hp, k)])

\* "ou" selected Couscous in the recipes, Rice Cookies and Couscous in the
\* products, with "couscous" a row of the loaded nutritional table: three
\* results, two of them of the same name
C4_Witness ==
    /\ Returned
    /\ query = <<"o","u">>
    /\ data_sources.nutritional.columns
    /\ \E i \in DOMAIN data_sources.nutritional.rows :
          data_sources.nutritional.rows[i].ingredient = S_couscous
    /\ Cardinality(Hits(data_sources.recipes, query)) = 1
    /\ Cardinality(Hits(data_sources.products, query)) = 2
    /\ Len(results) = 3
    /\ results[1].item_name = Str(S_Couscous)
    /\ results[1].gluten_sources = <<S_wheat, S_semolina>>
    /\ results[2].item_name = Str(S_RiceCookies)
    /\ results[3].item_name = Str(S_Couscous)
    /\ results[3].gluten_sources = <<S_couscous>>

\* keyword occurs in the lower-cased name
HasKeyword(name, keyword) ==
    \E a \in 1..(Len(name) + 1) :
        /\ a + Len(keyword) - 1 <= Len(name)
        /\ SubSeq(Lower(name), a, a + Len(keyword) - 1) = keyword

(* C6: the alternatives of an item name are the substitutes of couscous,   *)
(* then of bread, then of flour, each list present when its keyword occurs *)
(* in the lower-cased name, nothing removed; "Tagine" gives none and       *)
(* "Couscous" gives quinoa, rice, corn couscous.                           *)
C6_AlternativesInCatalogOrder ==
    Returned =>
        \A k \in DOMAIN results :
            LET name == results[k].item_name.s
                alts == results[k].alternative_suggestions
            IN /\ alts = (IF HasKeyword(name, S_couscous)
                          THEN <<"quinoa", "rice", "corn couscous">> ELSE <<>>)
                         \o (IF HasKeyword(name, S_bread)
                             THEN <<"corn bread", "rice bread">> ELSE <<>>)
                         \o (IF HasKeyword(name, S_flour)
                             THEN <<"rice flour", "corn flour">> ELSE <<>>)
               /\ name = S_Tagine => alts = <<>>
               /\ name = S_Couscous => alts = <<"quinoa", "rice", "corn couscous">>

\* "Flour Bread" got the substitutes of bread before those of flour, next
\* to a result without alternatives
C6_Witness ==
    /\ Returned
    /\ \E i, j \in DOMAIN results :
          /\ results[i].item_name = Str(S_FlourBread)
          /\ results[i].alternative_suggestions
                = <<"corn bread", "rice bread", "rice flour", "corn flour">>
          /\ results[j].item_name = Str(S_Tagine)
          /\ results[j].alternative_suggestions = <<>>

\* lines generate_response writes for one result
LineCount(r) ==
    1 + (IF r.gluten_sources # <<>> THEN 1 + Len(r.gluten_sources) ELSE 0)
      + (IF r.alternative_suggestions # <<>> THEN 1 + Len(r.alternative_suggestions) ELSE 0)

\* lines written before the k-th result: the header and the earlier results
RECURSIVE LinesBefore(_)
LinesBefore(k) == IF k = 1 THEN 1 ELSE LinesBefore(k - 1) + LineCount(results[k - 1])

\* generate_response was called on results, and response is what it returned
Responded == Returned /\ pc = "done"

(* C7: generate_response gives the no-information message for an empty     *)
(* list; otherwise a header line, then for each result in input order: a   *)
(* line with the name and the gluten label (the "contains" label exactly   *)
(* when contains_gluten), the sources heading and one line per source when *)
(* there are sources, the alternatives heading and one line per            *)
(* alternative when there are alternatives, and nothing else.              *)
C7_ResponseLayout ==
    Responded =>
        IF results = <<>> THEN response = NoInformation
        ELSE /\ response[1] = <<"header">>
             /\ Len(response) = LinesBefore(Len(results) + 1)
             /\ \A k \in DOMAIN results :
                   LET r == results[k]
                       o == LinesBefore(k)
                       ns == Len(r.gluten_sources)
                       na == Len(r.alternative_suggestions)
                       oa == o + 1 + (IF ns > 0 THEN 1 + ns ELSE 0)
                   IN /\ response[o + 1] =
                            <<"item", r.item_name,
                              IF r.contains_gluten THEN "contains-gluten" ELSE "gluten-free">>
                      /\ ns > 0 => /\ response[o + 2] = <<"sources-heading">>
                                   /\ \A n \in 1..ns :
                                         response[o + 2 + n] = <<"source", r.gluten_sources[n]>>
                      /\ na > 0 => /\ response[oa + 1] = <<"alternatives-heading">>
                                   /\ \A n \in 1..na :
                                         response[oa + 1 + n]
                                            = <<"alternative", r.alternative_suggestions[n]>>

\* a response to two results or more, one with sources and alternatives and
\* one with neither
C7_Witness ==
    /\ Responded
    /\ Len(results) >= 2
    /\ \E i, j \in DOMAIN results :
          /\ results[i].gluten_sources # <<>>
          /\ results[i].alternative_suggestions # <<>>
          /\ results[j].gluten_sources = <<>>
          /\ results[j].alternative_suggestions = <<>>
    /\ Len(response) > 1 + Len(results)

\* the empty list was answered with the no-information message
C7_WitnessEmpty == Responded /\ results = <<>> /\ response = NoInformation

----------------------------------------------------------------------------
(* Statements the code does not keep *)

\* q occurs in text as a literal substring, case ignored
LiteralIn(q, text) ==
    \E a \in 1..(Len(text) + 1) :
        /\ a + Len(q) - 1 <= Len(text)
        /\ Lower(SubSeq(text, a, a + Len(q) - 1)) = Lower(q)

\* the frame was loaded and every name and ingredients cell of it is a str
AllText(frame) ==
    /\ frame.columns
    /\ \A i \in DOMAIN frame.rows :
          frame.rows[i].name.k = "str" /\ frame.rows[i].ingredients.k = "str"

\* some name or ingredients cell of the frame is a number
HasNumber(frame) ==
    \E i \in DOMAIN frame.rows :
        frame.rows[i].name.k = "num" \/ frame.rows[i].ingredients.k = "num"

LiteralHits(frame, q) ==
    {i \in DOMAIN frame.rows :
        LiteralIn(q, frame.rows[i].name.s) \/ LiteralIn(q, frame.rows[i].ingredients.s)}

(* C3: on tables of text, for every query, characters such as ".", "*",   *)
(* "(" and "[" included, the retrieval returns and a row is selected       *)
(* exactly when the query is a case-insensitive literal substring of its   *)
(* name or of its ingredients.                                             *)
C3_LiteralSubstringMatch ==
    (Called /\ AllText(data_sources.recipes) /\ AllText(data_sources.products)) =>
        /\ outcome = "returned"
        /\ Hits(data_sources.recipes, query) = LiteralHits(data_sources.recipes, query)
        /\ Hits(data_sources.products, query) = LiteralHits(data_sources.products, query)

(* C5: when the load of a table failed, a later retrieve_relevant_info     *)
(* with a well-formed query on otherwise textual tables returns.           *)
C5_RetrieveSurvivesLoadFailure ==
    ( /\ Called
      /\ ~app
      /\ ReCompiles(query)
      /\ \/ ~data_sources.recipes.columns
         \/ ~data_sources.products.columns
         \/ ~data_sources.nutritional.columns
      /\ ~data_sources.recipes.columns \/ AllText(data_sources.recipes)
      /\ ~data_sources.products.columns \/ AllText(data_sources.products) ) =>
        outcome = "returned"

(* C8: retrieve_relevant_info("") on two loaded tables returns one result  *)
(* for every recipe row followed by one for every product row, whatever    *)
(* the tables hold.                                                        *)
C8_EmptyQueryReturnsEveryRow ==
    ( /\ Called
      /\ query = <<>>
      /\ data_sources.recipes.columns
      /\ data_sources.products.columns ) =>
        LET R == data_sources.recipes.rows
            P == data_sources.products.rows
        IN /\ outcome = "returned"
           /\ Len(results) = Len(R) + Len(P)
           /\ \A i \in DOMAIN R : results[i].item_name = R[i].name
           /\ \A i \in DOMAIN P : results[Len(R) + i].item_name = P[i].name

(* C9: in the text-search and in the product-scan mode, a press of the     *)
(* button with an empty or whitespace-only text shows a warning and does   *)
(* not call retrieve_relevant_info; with any other text it calls it.       *)
C9_BlankTextWarnsAndSkipsSearch ==
    (phase = "ready" /\ app /\ pc = "done") =>
        IF PyStrip(ui.text) = <<>>
        THEN ui.warning /\ ~ui.searched
        ELSE ui.searched

(* C10: with a number in a name or ingredients cell of a loaded table,     *)
(* retrieve_relevant_info with a well-formed query does not raise and      *)
(* returns a list.                                                         *)
C10_NonStringCellsNeverRaise ==
    ( /\ Called
      /\ ReCompiles(query)
      /\ data_sources.recipes.columns
      /\ data_sources.products.columns
      /\ HasNumber(data_sources.recipes) \/ HasNumber(data_sources.products) ) =>
        outcome = "returned"

\* the query holds none of the characters the pattern syntax gives a meaning
PlainQuery(q) == \A i \in DOMAIN q : q[i] \notin {".", "*", "(", "["}

\* both tables were loaded and their name and ingredients columns hold text
\* or missing values, not numbers
ObjectColumns(frame) ==
    frame.columns /\ frame.name_dtype = "object" /\ frame.ingredients_dtype = "object"

\* row i of the frame matches q as C11 reads it: q occurs in the placeholder
\* text of its missing ingredients, or in its name
PlaceholderHit(frame, q, i) ==
    \/ LiteralIn(q, PyStr(frame.rows[i].ingredients))
    \/ frame.rows[i].name.k = "str" /\ LiteralIn(q, frame.rows[i].name.s)

(* C11: a row whose ingredients are missing is matched as if they were the *)
(* placeholder text str() gives for them: exactly when the query occurs,   *)
(* case ignored, in that text or in the row's name; and the result of such *)
(* a row has contains_gluten false and no gluten sources.                  *)
C11_AbsentIngredientsMatchAsPlaceholder ==
    ( /\ Called
      /\ PlainQuery(query)
      /\ ObjectColumns(data_sources.recipes)
      /\ ObjectColumns(data_sources.products) ) =>
        /\ outcome = "returned"
        /\ \A i \in DOMAIN data_sources.recipes.rows :
              data_sources.recipes.rows[i].ingredients.k = "nan" =>
                 (i \in Hits(data_sources.recipes, query)
                    <=> PlaceholderHit(data_sources.recipes, query, i))
        /\ \A i \in DOMAIN data_sources.products.rows :
              data_sources.products.rows[i].ingredients.k = "nan" =>
                 (i \in Hits(data_sources.products, query)
                    <=> PlaceholderHit(data_sources.products, query, i))
        /\ OnePerHit
        /\ \A k \in DOMAIN results :
              RowOf(k).ingredients.k = "nan" =>
                 ~results[k].contains_gluten /\ results[k].gluten_sources = <<>>

----------------------------------------------------------------------------
(* Construction and the configuration file *)

\* the constructor raised while reading the configuration
ConfigFailure == phase = "failed" /\ ctor.raised = "open"

(* C12 as stated: when the configuration file is missing or unreadable at   *)
(* the time RAGSystem is constructed, the constructor raises, no instance   *)
(* exists, and no table has been loaded.                                    *)
C12_MissingOrUnreadableConfigFailsConstruction ==
    [][(phase = "prepared" /\ ctor.found \in {"missing", "unreadable"}) =>
          (phase' = "failed" /\ ctor'.raised = "open" /\ data_sources' = NoSources)]_vars

\* the file at config_path cannot be read once _prepare_data_files has run
ConfigUnreadable ==
    \/ ctor.found = "unreadable"
    \/ ctor.found = "missing" /\ ctor.config_path = "custom"

(* C12, amended: the constructor raises while reading the configuration     *)
(* exactly when the file is unreadable, or is missing at a path other than  *)
(* the default one; it does so right after _prepare_data_files, before any  *)
(* loader is called, and the tables stay unloaded.  A configuration missing *)
(* at the default path is written by _prepare_data_files and the            *)
(* constructor does not raise on it.                                        *)
C12_UnreadableConfigFailsConstruction ==
    [][phase = "prepared" =>
          IF ConfigUnreadable
          THEN /\ phase' = "failed"
               /\ ctor'.raised = "open"
               /\ ctor'.steps = <<"_prepare_data_files", "open">>
               /\ data_sources' = NoSources
          ELSE /\ ctor'.raised # "open"
               /\ phase' = "failed" => app' = FALSE /\ ctor'.raised = "read_csv"]_vars

C12_Witness ==
    /\ ConfigFailure
    /\ ctor.found = "missing"
    /\ ctor.config_path = "custom"
    /\ ctor.steps = <<"_prepare_data_files", "open">>
    /\ data_sources = NoSources

----------------------------------------------------------------------------
(* Repeated retrieval *)

====
